---- MODULE Spec2Model ----
(***************************************************************************)
(* Model of carbon-aware-compute/utils:                                    *)
(*   job_intensity.py   compute_job_carbon_intensity                       *)
(*   job_scheduler.py   schedule_job                                       *)
(*   historical_data.py fetch_carbon_intensity and the monthly fetch loop  *)
(*                                                                         *)
(* Time is counted in whole units from 0.  A carbon intensity series is a  *)
(* sequence of samples [point_time, value]; a mean is the exact rational   *)
(* [num, den] in lowest terms, and NaN is the mean of no rows.             *)
(***************************************************************************)
EXTENDS Integers, Sequences, FiniteSets, TLC

VARIABLES
    pc,                 \* position of the running script / call
    dataset,            \* the caller's carbon_intensity_dataset
    job_start,          \* compute_job_carbon_intensity: start_time argument
    job_end,            \* compute_job_carbon_intensity: end_time argument
    job_result,         \* compute_job_carbon_intensity: value returned or error raised
    start_time,         \* schedule_job: start_time argument
    duration,           \* schedule_job: duration argument
    flex_window,        \* schedule_job: flex_window argument
    resampled,          \* schedule_job: local carbon_intensity_dataset after line 37
    case_idx,           \* schedule_job: the *_case_idx locals, by policy name
    outcome,            \* schedule_job: how the call ended
    result,             \* schedule_job: the dict returned at lines 50-54
    current_start,      \* fetch loop: current_start
    all_data,           \* fetch loop: all_data, one entry per fetched period
    requests,           \* fetch loop: every period requested so far
    fetch_result,       \* fetch loop: what the last fetch_carbon_intensity call did
    combined_df         \* fetch loop: point_time index of combined_df

vars == << pc, dataset, job_start, job_end, job_result, start_time, duration,
           flex_window, resampled, case_idx, outcome, result, current_start, all_data,
           requests, fetch_result, combined_df >>

jiVars == << job_start, job_end, job_result >>
sjVars == << start_time, duration, flex_window, resampled, case_idx, outcome,
            result >>
hdVars == << current_start, all_data, requests, fetch_result, combined_df >>

(***************************************************************************)
(* Bounds of the model.                                                    *)
(***************************************************************************)
MaxTime == 2        \* sample timestamps and job times range over 0..MaxTime
MaxValue == 1       \* sample values range over 0..MaxValue
MaxLen == 3         \* longest series given to compute_job_carbon_intensity
MaxSchedTime == 4   \* schedule_job: timestamps and start_time range over 0..MaxSchedTime
MaxDuration == 3    \* schedule_job: duration ranges over 1..MaxDuration
MaxFlex == 4        \* schedule_job: flex_window ranges over 0..MaxFlex

Times == 0..MaxTime
Values == 0..MaxValue
Samples == [point_time : Times, value : Values]

(***************************************************************************)
(* Exact arithmetic for DataFrame.mean().                                  *)
(***************************************************************************)
RECURSIVE GCD(_, _)
GCD(a, b) == IF b = 0 THEN a ELSE GCD(b, a % b)

NaN == [num |-> 0, den |-> 0]

RECURSIVE SeqSum(_)
SeqSum(rows) == IF rows = << >> THEN 0 ELSE Head(rows).value + SeqSum(Tail(rows))

\* rows['value'].mean(): sum over count; NaN for no rows
Mean(rows) ==
    IF rows = << >> THEN NaN
    ELSE LET s == SeqSum(rows)
             n == Len(rows)
             g == GCD(s, n)
         IN  [num |-> s \div g, den |-> n \div g]

MeanLess(a, b) == a.num * b.den < b.num * a.den


(***************************************************************************)
(* historical_data.py: calendar dates                                      *)
(***************************************************************************)
\* lines 80 and 83
end_date == [year |-> 2025, month |-> 4, day |-> 22]
start_date == [year |-> 2024, month |-> 4, day |-> 23]

region == "CAISO_NORTH"

NoFetch == [response |-> "none", kind |-> "none", message |-> << >>]

(***************************************************************************)
(* job_intensity.py                                                        *)
(***************************************************************************)
\* filtered_data with the comparison against end_time strict (faulty variant)
filtered_data_exclusive(s, e, ds) ==
    LET InWindow(r) == r.point_time >= s /\ r.point_time < e
    IN  SelectSeq(ds, InWindow)

\* line 32: the rows with start_time <= point_time <= end_time, in dataset order
filtered_data(s, e, ds) ==
    LET InWindow(r) == r.point_time >= s /\ r.point_time <= e
    IN  SelectSeq(ds, InWindow)

\* compute_job_carbon_intensity without the emptiness check of line 35 (faulty variant)
compute_job_carbon_intensity_unchecked(s, e, ds) ==
    [kind |-> "value", value |-> Mean(filtered_data(s, e, ds))]

\* lines 31-40: the mean of the filtered rows, or ValueError when there are none
compute_job_carbon_intensity(s, e, ds) ==
    LET filtered == filtered_data(s, e, ds)
    IN  IF filtered = << >>
        THEN [kind |-> "ValueError", value |-> NaN]
        ELSE [kind |-> "value", value |-> Mean(filtered)]

RECURSIVE SeriesOfLen(_)
SeriesOfLen(n) ==
    IF n = 0 THEN { << >> }
    ELSE { Append(s, r) : s \in SeriesOfLen(n - 1), r \in Samples }

\* every series of at most MaxLen samples, in any order, timestamps repeated or not
AnySeries == UNION { SeriesOfLen(n) : n \in 0..MaxLen }

NoCall == [kind |-> "none", value |-> NaN]

InitJI ==
    /\ pc = "idle"
    /\ dataset \in AnySeries
    /\ job_start = 0 /\ job_end = 0 /\ job_result = NoCall
    /\ start_time = 0 /\ duration = 1 /\ flex_window = 1
    /\ resampled = << >> /\ case_idx = << >> /\ outcome = "none" /\ result = << >>
    /\ current_start = start_date /\ all_data = << >> /\ requests = << >>
    /\ fetch_result = NoFetch /\ combined_df = << >>

\* one call of compute_job_carbon_intensity on the caller's dataset
ComputeJobCarbonIntensity ==
    /\ pc = "idle"
    /\ \E s \in Times, e \in Times :
          /\ job_start' = s
          /\ job_end' = e
          /\ job_result' = compute_job_carbon_intensity(s, e, dataset)
    /\ pc' = "done"
    /\ UNCHANGED << dataset, sjVars, hdVars >>

NextJI == ComputeJobCarbonIntensity

SpecJI == InitJI /\ [][NextJI]_vars

(***************************************************************************)
(* Claims about compute_job_carbon_intensity.                              *)
(***************************************************************************)
\* the positions of the dataset whose timestamp lies in [s, e]
InWindowIdx(s, e) ==
    { i \in DOMAIN dataset : s <= dataset[i].point_time /\ dataset[i].point_time <= e }

RECURSIVE SumIdx(_)
SumIdx(S) ==
    IF S = {} THEN 0
    ELSE LET i == CHOOSE j \in S : TRUE
         IN  dataset[i].value + SumIdx(S \ {i})

RECURSIVE Reverse(_)
Reverse(s) == IF s = << >> THEN << >> ELSE Append(Reverse(Tail(s)), Head(s))

\* the rows of a are rows of b, counted with multiplicity
SubRows(a, b) ==
    \A r \in Samples :
        Len(SelectSeq(a, LAMBDA x : x = r)) <= Len(SelectSeq(b, LAMBDA x : x = r))

\* C3: when some sample lies in [start, end], compute_job_carbon_intensity
\* returns the unweighted mean of exactly the samples with start <= t <= end,
\* whatever the order of the samples; a window inside [start, end] selects
\* a sub-collection of the samples the call averaged.
C3_MeanOfWindow ==
    (pc = "done" /\ InWindowIdx(job_start, job_end) # {}) =>
        LET S == InWindowIdx(job_start, job_end)
        IN  /\ job_result.kind = "value"
            /\ job_result.value.den > 0
            /\ job_result.value.num * Cardinality(S) = SumIdx(S) * job_result.value.den
            /\ compute_job_carbon_intensity(job_start, job_end, Reverse(dataset)) = job_result
            /\ \A s2 \in job_start..job_end : \A e2 \in s2..job_end :
                  SubRows(filtered_data(s2, e2, dataset),
                          filtered_data(job_start, job_end, dataset))

\* a call over a window holding two samples of different value at its two ends
C3_Witness ==
    /\ pc = "done"
    /\ job_start < job_end
    /\ \E i, j \in DOMAIN dataset :
          /\ dataset[i].point_time = job_start
          /\ dataset[j].point_time = job_end
          /\ dataset[i].value # dataset[j].value
    /\ \E i \in DOMAIN dataset : dataset[i].point_time > job_end
    /\ job_result.kind = "value"

\* C4: when no sample lies in [start, end] (empty series and start > end
\* included), compute_job_carbon_intensity raises ValueError and returns no number.
C4_NoDataRaises ==
    (pc = "done" /\ InWindowIdx(job_start, job_end) = {}) =>
        job_result.kind = "ValueError"

\* a call on a non-empty series over a well-formed window that holds no sample
C4_Witness ==
    /\ pc = "done"
    /\ dataset # << >>
    /\ job_start <= job_end
    /\ InWindowIdx(job_start, job_end) = {}
    /\ job_result.kind = "ValueError"

(***************************************************************************)
(* job_scheduler.py                                                        *)
(***************************************************************************)
\* time units in a calendar day: resample() anchors its bins at midnight of
\* the first sample's day (origin='start_day', the default)
DayLen == 4

SchedTimes == 0..MaxSchedTime

SetMin(S) == CHOOSE x \in S : \A y \in S : x <= y

StartOfDay(t) == t - (t % DayLen)

\* left edge of the bin of width d, counted from origin, that holds t
BinEdge(t, origin, d) == origin + ((t - origin) \div d) * d

\* line 37: carbon_intensity_dataset.resample(duration).mean() on a non-empty
\* frame indexed by point_time: one row per bin [edge, edge + duration) from the
\* bin of the first sample to the bin of the last, NaN for a bin without samples
resample_mean(ds, d) ==
    LET first == ds[1].point_time
        last == ds[Len(ds)].point_time
        origin == StartOfDay(first)
        lo == BinEdge(first, origin, d)
        hi == BinEdge(last, origin, d)
        n == ((hi - lo) \div d) + 1
    IN  [k \in 1..n |->
            LET edge == lo + (k - 1) * d
                InBin(r) == edge <= r.point_time /\ r.point_time < edge + d
            IN  [point_time |-> edge, value |-> Mean(SelectSeq(ds, InBin))]]

\* line 40: idxmin() skips NaN and returns, per column, the first label of the minimum
idxmin(frame) ==
    LET valid == { k \in DOMAIN frame : frame[k].value # NaN }
        best == { k \in valid : \A j \in valid : ~MeanLess(frame[j].value, frame[k].value) }
    IN  [kind |-> "Series", point_time |-> frame[SetMin(best)].point_time]

\* line 42: idxmax() skips NaN and returns, per column, the first label of the maximum
idxmax(frame) ==
    LET valid == { k \in DOMAIN frame : frame[k].value # NaN }
        best == { k \in valid : \A j \in valid : ~MeanLess(frame[k].value, frame[j].value) }
    IN  [kind |-> "Series", point_time |-> frame[SetMin(best)].point_time]

\* line 41: index[0] is a single Timestamp, the label of the first bin
index0(frame) == [kind |-> "Timestamp", point_time |-> frame[1].point_time]

RowAt(frame, t) == frame[CHOOSE k \in DOMAIN frame : frame[k].point_time = t]

\* lines 46-48, frame.loc[idx].to_dict()['value']: .loc with the Series that
\* idxmin/idxmax return selects a frame, whose 'value' entry is the dict
\* {point_time: mean}; .loc with a single Timestamp selects one row, whose
\* 'value' entry is the bare float
loc_value(frame, idx) ==
    LET row == RowAt(frame, idx.point_time)
    IN  IF idx.kind = "Series"
        THEN [kind |-> "dict", items |-> << << row.point_time, row.value >> >>]
        ELSE [kind |-> "float", items |-> << >>]

\* list(x.items())[0]: only a dict has items()
HasItems(x) == x.kind = "dict"

RECURSIVE SortedSeries(_, _)
SortedSeries(S, f) ==
    IF S = {} THEN << >>
    ELSE LET t == SetMin(S)
         IN  << [point_time |-> t, value |-> f[t]] >> \o SortedSeries(S \ {t}, f)

InitSJ ==
    /\ pc = "idle"
    /\ \E S \in SUBSET SchedTimes : \E f \in [S -> Values] : dataset = SortedSeries(S, f)
    /\ job_start = 0 /\ job_end = 0 /\ job_result = NoCall
    /\ start_time = 0 /\ duration = 1 /\ flex_window = 1
    /\ resampled = << >> /\ case_idx = << >> /\ outcome = "none" /\ result = << >>
    /\ current_start = start_date /\ all_data = << >> /\ requests = << >>
    /\ fetch_result = NoFetch /\ combined_df = << >>

\* lines 37-45: schedule_job up to the breakpoint() call.  On an empty frame
\* idxmin() raises ValueError or, where it returns an empty Series, index[0]
\* raises IndexError.
ScheduleJob ==
    /\ pc = "idle"
    /\ \E st \in SchedTimes, d \in 1..MaxDuration, fw \in 0..MaxFlex :
          /\ start_time' = st
          /\ duration' = d
          /\ flex_window' = fw
          /\ IF dataset = << >>
             THEN /\ resampled' = << >>
                  /\ case_idx' = << >>
                  /\ outcome' \in { "ValueError", "IndexError" }
                  /\ pc' = "done"
             ELSE /\ resampled' = resample_mean(dataset, d)
                  /\ case_idx' = [optimal |-> idxmin(resampled'),
                                  naive |-> index0(resampled'),
                                  worst |-> idxmax(resampled')]
                  /\ outcome' = "none"
                  /\ pc' = "breakpoint"
    /\ UNCHANGED << dataset, result, jiVars, hdVars >>

\* line 45 onwards, once the operator at the pdb prompt continues: lines 46-54.
\* naive_case_idx is a single Timestamp, so line 47 calls items() on a float
\* and raises AttributeError; the return of line 50 is not reached.
DebuggerContinue ==
    /\ pc = "breakpoint"
    /\ LET optimal == loc_value(resampled, case_idx.optimal)
           naive == loc_value(resampled, case_idx.naive)
           worst == loc_value(resampled, case_idx.worst)
       IN  IF HasItems(optimal) /\ HasItems(naive) /\ HasItems(worst)
           THEN /\ result' = [optimal |-> optimal.items[1],
                              naive |-> naive.items[1],
                              worst |-> worst.items[1]]
                /\ outcome' = "result"
           ELSE /\ result' = << >>
                /\ outcome' = "AttributeError"
    /\ pc' = "done"
    /\ UNCHANGED << dataset, start_time, duration, flex_window, resampled, case_idx,
                    jiVars, hdVars >>

\* line 45, when the operator quits the debugger: pdb raises BdbQuit
DebuggerQuit ==
    /\ pc = "breakpoint"
    /\ outcome' = "BdbQuit"
    /\ pc' = "done"
    /\ UNCHANGED << dataset, start_time, duration, flex_window, resampled, case_idx,
                    result, jiVars, hdVars >>

NextSJ == ScheduleJob \/ DebuggerContinue \/ DebuggerQuit

SpecSJ == InitSJ /\ [][NextSJ]_vars

(***************************************************************************)
(* Claims about schedule_job.  The search space, its candidate windows and *)
(* their means are those of the specification: the samples with            *)
(* start_time <= t <= start_time + flex_window, cut into windows of length *)
(* duration from the first of them, each window fitting the flex window.   *)
(***************************************************************************)
\* lines 40-42 have run: schedule_job has selected its start times
Selected == pc \in { "breakpoint", "done" } /\ dataset # << >>

SearchSpace ==
    { t \in SchedTimes :
        /\ start_time <= t /\ t <= start_time + flex_window
        /\ \E i \in DOMAIN dataset : dataset[i].point_time = t }

WindowRows(s) ==
    LET InWindow(r) ==
            /\ s <= r.point_time /\ r.point_time < s + duration
            /\ r.point_time <= start_time + flex_window
    IN  SelectSeq(dataset, InWindow)

CandidateStarts ==
    IF SearchSpace = {} THEN {}
    ELSE { s \in { SetMin(SearchSpace) + k * duration : k \in 0..MaxSchedTime } :
             /\ s + duration <= start_time + flex_window
             /\ WindowRows(s) # << >> }

CandidateMean(s) == Mean(WindowRows(s))

ValidJobSpec == duration > 0 /\ flex_window > 0 /\ flex_window >= duration

\* the calls for which the specification yields a schedule
Schedulable == ValidJobSpec /\ CandidateStarts # {}

SelectedStarts == { case_idx[p].point_time : p \in DOMAIN case_idx }

\* C1: every start time schedule_job selects for a schedulable job lies in
\* the flex window: start_time <= s and s + duration <= start_time + flex_window.
C1_InsideFlexWindow ==
    (Selected /\ Schedulable) =>
        \A s \in SelectedStarts :
            start_time <= s /\ s + duration <= start_time + flex_window

\* C2: the entries schedule_job selects include optimal, median and worst,
\* and optimal mean <= median mean <= worst mean.
C2_OptimalMedianWorst ==
    (Selected /\ Schedulable) =>
        /\ { "optimal", "median", "worst" } \subseteq DOMAIN case_idx
        /\ LET m(p) == RowAt(resampled, case_idx[p].point_time).value
           IN  /\ ~MeanLess(m("median"), m("optimal"))
               /\ ~MeanLess(m("worst"), m("median"))

\* C5: the optimal start is the candidate window of the search space with the
\* least mean, the earliest of them on a tie, and its mean is over at least one sample.
C5_OptimalIsMinimum ==
    (Selected /\ Schedulable) =>
        LET least == { s \in CandidateStarts :
                         \A c \in CandidateStarts : ~MeanLess(CandidateMean(c), CandidateMean(s)) }
        IN  /\ case_idx.optimal.point_time = SetMin(least)
            /\ RowAt(resampled, case_idx.optimal.point_time).value = CandidateMean(SetMin(least))

\* C6: the naive start is the earliest timestamp of the search space: the
\* start_time anchor, or the first sample at or after it.
C6_NaiveIsEarliest ==
    (Selected /\ Schedulable) =>
        case_idx.naive.point_time \in { start_time, SetMin(SearchSpace) }

\* C7: a call with duration <= 0, flex_window <= 0 or flex_window < duration
\* (here on a non-empty series) is rejected with InvalidJobSpec: it selects
\* no start time and returns no schedule.
C7_InvalidJobSpec ==
    (pc # "idle" /\ dataset # << >> /\ ~ValidJobSpec) =>
        (outcome = "InvalidJobSpec" /\ DOMAIN case_idx = {} /\ result = << >>)

\* C8: schedule_job runs to completion on its own: it never waits for
\* interactive input, and no call ends by the debugger being quit.
C8_NonInteractive ==
    /\ pc # "breakpoint"
    /\ (pc = "done" => outcome # "BdbQuit")

(***************************************************************************)
(* historical_data.py                                                      *)
(***************************************************************************)
IsLeap(y) == (y % 4 = 0 /\ y % 100 # 0) \/ y % 400 = 0

DaysInMonth(y, m) ==
    IF m = 2 THEN (IF IsLeap(y) THEN 29 ELSE 28)
    ELSE IF m \in { 4, 6, 9, 11 } THEN 30 ELSE 31

RECURSIVE DaysBeforeMonth(_, _)
DaysBeforeMonth(y, m) ==
    IF m = 1 THEN 0 ELSE DaysBeforeMonth(y, m - 1) + DaysInMonth(y, m - 1)

RECURSIVE DaysBeforeYear(_)
DaysBeforeYear(y) ==
    IF y <= start_date.year THEN 0
    ELSE DaysBeforeYear(y - 1) + (IF IsLeap(y - 1) THEN 366 ELSE 365)

\* the day number of a datetime at 00:00:00, counted from 1 January of start_date's year
Ordinal(d) == DaysBeforeYear(d.year) + DaysBeforeMonth(d.year, d.month) + d.day - 1

\* datetime comparison of two midnights
DateLess(a, b) == Ordinal(a) < Ordinal(b)

\* lines 97-100: the same day of the following month
next_month_of(cs) ==
    IF cs.month = 12
    THEN [year |-> cs.year + 1, month |-> 1, day |-> cs.day]
    ELSE [year |-> cs.year, month |-> cs.month + 1, day |-> cs.day]

\* line 103: min(next_month, end_date)
current_end_of(cs) ==
    IF DateLess(end_date, next_month_of(cs)) THEN end_date ELSE next_month_of(cs)

\* lines 109-110: the period requested, from current_start at 00:00:00 to
\* current_end at 23:59:59, as the first and last day it covers
RequestOf(cs) == [from |-> Ordinal(cs), to |-> Ordinal(current_end_of(cs))]

\* str(e).lower(), word by word
LowerWord(w) ==
    CASE w = "No" -> "no"
      [] w = "Invalid" -> "invalid"
      [] w = "Unexpected" -> "unexpected"
      [] w = "Region" -> "region"
      [] w = "Credentials" -> "credentials"
      [] w = "WattTime" -> "watttime"
      [] w = "API" -> "api"
      [] w = "CAISO_NORTH" -> "caiso_north"
      [] OTHER -> w

lower(msg) == [i \in DOMAIN msg |-> LowerWord(msg[i])]

\* word in str(e).lower()
Contains(msg, w) == \E i \in DOMAIN msg : lower(msg)[i] = w

\* line 44
NoDataMessage ==
    << "No", "carbon", "intensity", "data", "found", "for", "region", region,
       "between", "start_time", "and", "end_time" >>

\* line 48
UnexpectedFormatMessage == << "Unexpected", "data", "format", "from", "WattTime", "API" >>

\* line 58
InvalidRegionMessage ==
    << "Invalid", "region", region, "Please", "check", "the", "region", "code" >>

\* line 60
AuthenticationMessage ==
    << "Authentication", "failed", "Please", "check", "your", "WattTime", "API",
       "credentials" >>

\* what get_historical_pandas can do: return samples, return an empty frame,
\* return a frame without the expected columns, or raise
Responses ==
    { "data", "empty", "bad_columns", "region_rejected", "credentials_rejected",
      "unavailable" }

\* the message of the exception the data source raises
SourceMessage(response) ==
    CASE response = "region_rejected" -> << "Region", "not", "recognised" >>
      [] response = "credentials_rejected" -> << "Credentials", "not", "accepted" >>
      [] OTHER -> << "service", "unavailable" >>

\* lines 33-53: the exception raised inside the try block, if any
RaisedInTry(response) ==
    CASE response = "data" -> << >>
      [] response = "empty" -> NoDataMessage
      [] response = "bad_columns" -> UnexpectedFormatMessage
      [] OTHER -> SourceMessage(response)

\* lines 33-63: fetch_carbon_intensity on one response of the data source
fetch_carbon_intensity(response) ==
    LET e == RaisedInTry(response)
    IN  IF e = << >>
        THEN [response |-> response, kind |-> "frame", message |-> << >>]
        ELSE IF Contains(e, "region")
        THEN [response |-> response, kind |-> "ValueError", message |-> InvalidRegionMessage]
        ELSE IF Contains(e, "credentials")
        THEN [response |-> response, kind |-> "ValueError", message |-> AuthenticationMessage]
        ELSE [response |-> response, kind |-> "reraised", message |-> e]

\* the point_time index of the frame the data source returns for a period,
\* counting one sample per day
SamplesOf(req) == [k \in 1..(req.to - req.from + 1) |-> req.from + k - 1]

RECURSIVE Concat(_)
Concat(frames) ==
    IF frames = << >> THEN << >> ELSE SamplesOf(Head(frames)) \o Concat(Tail(frames))

InitHD ==
    /\ pc = "loop"
    /\ current_start = start_date
    /\ all_data = << >> /\ requests = << >>
    /\ fetch_result = NoFetch /\ combined_df = << >>
    /\ dataset = << >>
    /\ job_start = 0 /\ job_end = 0 /\ job_result = NoCall
    /\ start_time = 0 /\ duration = 1 /\ flex_window = 1
    /\ resampled = << >> /\ case_idx = << >> /\ outcome = "none" /\ result = << >>

\* lines 94-127: one pass of the while loop
FetchMonth ==
    /\ pc = "loop"
    /\ DateLess(current_start, end_date)
    /\ \E response \in Responses :
          LET got == fetch_carbon_intensity(response)
          IN  /\ fetch_result' = got
              /\ all_data' = IF got.kind = "frame"
                             THEN Append(all_data, RequestOf(current_start))
                             ELSE all_data
    /\ requests' = Append(requests, RequestOf(current_start))
    /\ current_start' = next_month_of(current_start)
    /\ UNCHANGED << pc, combined_df, dataset, jiVars, sjVars >>

\* lines 129-143: after the loop, pd.concat(all_data) when anything was fetched
Combine ==
    /\ pc = "loop"
    /\ ~DateLess(current_start, end_date)
    /\ combined_df' = Concat(all_data)
    /\ pc' = "done"
    /\ UNCHANGED << current_start, all_data, requests, fetch_result, dataset,
                    jiVars, sjVars >>

NextHD == FetchMonth \/ Combine

SpecHD == InitHD /\ [][NextHD]_vars

(***************************************************************************)
(* Claims about historical_data.py.                                        *)
(***************************************************************************)
\* C9: the periods requested by the loop do not overlap, none extends past
\* end_date, and the combined series holds no timestamp twice.
C9_UniqueTimestamps ==
    /\ \A i, j \in DOMAIN requests : i < j => requests[i].to < requests[j].from
    /\ \A i \in DOMAIN requests : requests[i].to <= Ordinal(end_date)
    /\ \A i, j \in DOMAIN combined_df : i # j => combined_df[i] # combined_df[j]

\* C10: an empty result is reported by the 'no carbon intensity data found'
\* error, and the 'invalid region' error is raised only when the data source
\* rejected the region.
C10_ErrorPerCause ==
    /\ fetch_result.response = "empty" =>
          (fetch_result.kind = "ValueError" /\ fetch_result.message = NoDataMessage)
    /\ fetch_result.message = InvalidRegionMessage =>
          fetch_result.response = "region_rejected"

====
